---- MODULE Spec2Model ----
(***************************************************************************)
(* A model of the credit-budgeted fetch scheduler of whale-fetcher-server: *)
(*   - the free-plan tracking scheduler (routes/free-whale.routes.ts, the   *)
(*     second half of src/src/routes/whale.routes.ts),                      *)
(*   - the credit ledger and wallet cache of HeliusFreeService,             *)
(*   - the RateLimiter utility.                                             *)
(* JavaScript runs one callback at a time: an action is the code between    *)
(* two suspension points that wait for I/O or for a timer.  A continuation  *)
(* of an await on a promise that is already settled runs before any timer   *)
(* or I/O callback, so it is part of the same action.                       *)
(*                                                                          *)
(* Time is counted in ticks of one hour.  The credit amounts of the source  *)
(* (10M a month, 333333 a day, a buffer of 1000, ...) are scaled down,      *)
(* keeping their order and the cost of a call (2 credits, 1 for discovery). *)
(***************************************************************************)
EXTENDS Integers, Sequences, FiniteSets, TLC

\* ---------------------------------------------------------------- bounds
MaxAfter == 1         \* ticks the clock runs past the first month boundary
HoursPerDay == 4      \* ticks in a (scaled) day
DaysPerMonth == 2     \* days in a (scaled) month
MaxStart == 1         \* the process starts at one of MaxStart ticks
MaxCycles == 2        \* activations of trackingLoop the model has room for
MaxRefresh == 1       \* POST /refresh requests in flight at once
MaxCalls == 3         \* calls of RateLimiter.execute
MaxWeight == 3        \* weights of those calls: 1..MaxWeight
MaxRlNow == 3         \* the rate limiter's clock stops here
maxRequestsPerSecond == 2   \* the limiter's first constructor argument
MaxBreakerCalls == 5  \* calls of CircuitBreaker.execute
MaxBreakerNow == 3    \* the breaker's clock stops here
failureThreshold == 2 \* the breaker's constructor arguments
recoveryTimeout == 1
successThreshold == 2
MaxJobs == 3          \* calls of BatchProcessor.process
MaxItems == 2         \* items of a job: 0..MaxItems
processorBatchSize == 1   \* the processor's batchSize option
MaxFetches == 2       \* calls of fetchWhales
MaxManual == 1        \* POST /analyze/:address requests

\* ----------------------------------------------------- program constants
maxCreditsPerMonth == 12
maxCreditsPerDay == 8
maxWalletsToTrack == 3
batchSize == 2
MAX_WALLETS_TO_FETCH == 2
CreditBuffer == 2
AnalyzeCredits == 2
DiscoverCredits == 1
MinCycleCredits == 4
MinRefreshCredits == 1
MinTrackedWallets == 2
HourTicks == 1
DefaultTTL == 2
HighTTL == 4
SolPriceTTL == 1
MaxCacheSize == 2
DailyLow == 2
DailyHigh == 5
CooldownDelay == 3600000
RetryDelay == 1800000
LowDailyInterval == 14400000
HighDailyInterval == 10800000
REFRESH_INTERVAL == 21600000
BurstFactor == 5
WindowTicks == 2

Addrs == {"w1", "w2"}
KNOWN_WHALES == <<"w1">>
\* the addresses the cache is exercised with, and the lists that are read
CacheAddrs == Addrs \cup {"w3"}
AddrLists == {<<a>> : a \in CacheAddrs} \cup {<<a, b>> : a \in CacheAddrs, b \in CacheAddrs}
\* what the token-holders endpoint may answer (empty also on a failed call)
HolderLists == {<<>>, <<"w2">>, <<"w1", "w2">>, <<"w2", "w3">>}
\* analyzeWalletOptimized answers null or a whale; whether a whale is a high
\* performer (win rate >= 70 and balance >= 100000) is a property of the wallet
Whale(address) == IF address = "w1" THEN "hi" ELSE "lo"

MonthTicks == DaysPerMonth * HoursPerDay

\* the Solscan fetcher: calls of fetchWhales, POST /analyze handlers
Fetches == 1..MaxFetches
Handlers == 1..MaxManual
\* what discoverTopWallets may return
PotentialLists == {<<>>, <<"w2", "w1">>, <<"w1", "w2", "w1">>}
\* totalBalanceUsd of an analysed whale
Balances == {1, 2}
NewFetch == [pc |-> "new", potentialWallets |-> <<>>, i |-> 0, existingIndex |-> 0]

VARIABLES
  now,              \* Date.now(), in ticks
  moduleLoaded,     \* the routes module has run initializeService
  heliusService,    \* TRUE once constructed
  creditUsage,      \* HeliusFreeService.creditUsage
  lastCreditCheck,  \* HeliusFreeService.lastCreditCheck
  walletCache,      \* HeliusFreeService.walletCache, in insertion order
  trackedWallets,   \* the tracked set, in insertion order
  lastFullUpdate,
  isTracking,
  pendingLoop,      \* pending setTimeout(trackingLoop, 5000) timers
  wakeTimers,       \* delays of the pending scheduleNextUpdate timers
  tasks,            \* trackingLoop activations and /refresh handlers
  recorded,         \* history: credits recorded since the last monthly reset
  lastCheck,        \* history: the last checkCreditUsage call and its answer
  today,            \* history: credits recorded, and whether the rollover
                    \* check ran, since the last day boundary
  timerTicked,      \* history: a tick passed while the 5 s timer was pending
  rlNow,            \* Date.now() for the rate limiter, in ticks of 500 ms
  requests,         \* RateLimiter.requests (id: the call that pushed the sample)
  calls,            \* the calls of RateLimiter.execute
  reentrantCalls    \* history: startSmartTracking calls made during a cycle

VARIABLES
  breakerNow,       \* Date.now() for the circuit breaker, in ticks
  state,            \* CircuitBreaker.state
  failures,         \* CircuitBreaker.failures
  lastFailureTime,  \* CircuitBreaker.lastFailureTime
  successCount,     \* CircuitBreaker.successCount
  breakerCalls,     \* the calls of CircuitBreaker.execute
  outcomes,         \* history: TRUE/FALSE for each wrapped call that settled, in order
  cacheOp,          \* history: the last operation on the wallet cache, the keys
                    \* whose values it returned, the keys that were fresh, the
                    \* keys it evicted and their position in the map
  queue,            \* BatchProcessor.queue: the ids of the waiting jobs
  processing,       \* BatchProcessor.processing
  jobs,             \* the calls of BatchProcessor.process
  current,          \* the job whose Promise.all startProcessing awaits (0: none)
  loopReady,        \* that Promise.all has settled: the loop's continuation is due
  handed,           \* history: the job of each chunk handed to the processor, in order
  loops             \* history: activations of startProcessing between its guard and its end

VARIABLES
  whaleWallets,     \* the module's list of whales (routes of the Solscan fetcher)
  isProcessing,     \* the module's flag of a fetch in progress
  fetches,          \* the calls of fetchWhales
  manual,           \* the POST /analyze/:address handlers
  whaleClock        \* the date a new analysis stamps on its whale

schedVars == <<isTracking, pendingLoop, wakeTimers, reentrantCalls, timerTicked>>
ledgerVars == <<creditUsage, lastCreditCheck, recorded, lastCheck, today>>
rlVars == <<rlNow, requests, calls>>
schedVarsButWake == <<isTracking, pendingLoop, reentrantCalls, timerTicked>>
svcVars == <<now, moduleLoaded, heliusService, walletCache, trackedWallets,
             lastFullUpdate, tasks>>
breakerVars == <<breakerNow, state, failures, lastFailureTime, successCount,
                 breakerCalls, outcomes>>
\* what the actions of one component leave alone
processorVars == <<queue, processing, jobs, current, loopReady, handed, loops>>
whaleVars == <<whaleWallets, isProcessing, fetches, manual, whaleClock>>
outsideService == <<rlVars, breakerVars, cacheOp, processorVars, whaleVars>>
outsideRateLimiter == <<schedVars, ledgerVars, svcVars, breakerVars, cacheOp, processorVars, whaleVars>>
outsideBreaker == <<schedVars, ledgerVars, svcVars, rlVars, cacheOp, processorVars, whaleVars>>
outsideCache == <<schedVars, ledgerVars, rlVars, breakerVars, processorVars, whaleVars, moduleLoaded,
                  heliusService, trackedWallets, lastFullUpdate, tasks>>
outsideWhales == <<schedVars, ledgerVars, svcVars, rlVars, breakerVars, cacheOp, processorVars>>
outsideProcessor == <<schedVars, ledgerVars, svcVars, rlVars, breakerVars, cacheOp, whaleVars>>

\* ------------------------------------------------------------------ maps
\* A JavaScript Map: a sequence of [k, v] in insertion order.
MapHas(m, k) == \E i \in 1..Len(m) : m[i].k = k
MapIdx(m, k) == CHOOSE i \in 1..Len(m) : m[i].k = k
MapGet(m, k) == m[MapIdx(m, k)].v
MapSet(m, k, v) ==
  IF MapHas(m, k) THEN [m EXCEPT ![MapIdx(m, k)] = [k |-> k, v |-> v]]
  ELSE Append(m, [k |-> k, v |-> v])
MapDelete(m, k) == SelectSeq(m, LAMBDA e : e.k # k)
MapKeys(m) == [i \in 1..Len(m) |-> m[i].k]

Min(a, b) == IF a < b THEN a ELSE b

RECURSIVE Unique(_)
\* [...new Set(list)]: the first occurrence of each element, in order
Unique(s) ==
  IF s = <<>> THEN <<>>
  ELSE LET r == Unique(SubSeq(s, 1, Len(s) - 1))
           x == s[Len(s)]
       IN IF \E i \in 1..Len(r) : r[i] = x THEN r ELSE Append(r, x)

RECURSIVE chunkArray(_, _)
chunkArray(array, size) ==
  IF array = <<>> THEN <<>>
  ELSE <<SubSeq(array, 1, Min(size, Len(array)))>>
       \o chunkArray(SubSeq(array, Min(size, Len(array)) + 1, Len(array)), size)

\* ---------------------------------------------------------------- ledger
getHours(t) == t % HoursPerDay

\* new Date(year, month + 1, 1): the first instant of the month after t's
getNextMonthStart(t) == ((t \div MonthTicks) + 1) * MonthTicks

InitialCreditUsage(t) ==
  [used |-> 0, remaining |-> maxCreditsPerMonth, resetDate |-> getNextMonthStart(t),
   dailyUsed |-> 0, dailyLimit |-> maxCreditsPerDay]

\* The state of the service that a synchronous stretch of code threads through.
Svc == [cu |-> creditUsage, lcc |-> lastCreditCheck, cache |-> walletCache,
        rec |-> recorded, chk |-> lastCheck, day |-> today]

Throttled(s) == now - s.lcc < HourTicks

dailyReset(cu) ==
  IF getHours(now) = 0 /\ cu.dailyUsed > 0 THEN [cu EXCEPT !.dailyUsed = 0] ELSE cu

\* a monthly reset that keeps the old reset date
monthlyReset_KeepsDate(cu) ==
  IF now > cu.resetDate
  THEN [cu EXCEPT !.used = 0, !.remaining = maxCreditsPerMonth]
  ELSE cu

monthlyReset(cu) ==
  IF now > cu.resetDate
  THEN [cu EXCEPT !.used = 0, !.remaining = maxCreditsPerMonth,
                  !.resetDate = getNextMonthStart(now)]
  ELSE cu

creditAnswer(cu) == cu.remaining > CreditBuffer

\* checkCreditUsage: the service after the call; its answer is creditAnswer.
\* (Nothing in its try block throws: the catch branch is not reachable.)
checkCreditUsage(s) ==
  LET cu2 == IF Throttled(s) THEN s.cu ELSE monthlyReset(dailyReset(s.cu))
  IN [s EXCEPT !.cu = cu2,
               !.lcc = IF Throttled(s) THEN s.lcc ELSE now,
               !.rec = IF ~Throttled(s) /\ now > s.cu.resetDate THEN 0 ELSE s.rec,
               !.chk = [made |-> TRUE, answer |-> creditAnswer(cu2),
                        monthlyLeft |-> cu2.remaining >= AnalyzeCredits,
                        dailyLeft |-> cu2.dailyUsed + AnalyzeCredits <= cu2.dailyLimit],
               !.day.checked = @ \/ ~Throttled(s)]

\* a charge that forgets the remaining budget
recordCreditUsage_UsedOnly(s, credits) ==
  [s EXCEPT !.cu.used = @ + credits,
            !.cu.dailyUsed = @ + credits,
            !.rec = @ + credits,
            !.day.recorded = @ + credits]

recordCreditUsage(s, credits) ==
  [s EXCEPT !.cu.used = @ + credits,
            !.cu.remaining = @ - credits,
            !.cu.dailyUsed = @ + credits,
            !.rec = @ + credits,
            !.day.recorded = @ + credits]

getDailyRemainingCredits(cu) == maxCreditsPerDay - cu.dailyUsed

\* ----------------------------------------------------------------- cache
\* a freshness test that ignores the entry's own TTL
Fresh_DefaultTTL(e) == (now - e.timestamp) < DefaultTTL

Fresh(e) == (now - e.timestamp) < e.cacheTTL

\* a split that finds nothing in the cache
splitCachedUncached_AllUncached(cache, addresses) ==
  [cached |-> <<>>, uncached |-> addresses]

splitCachedUncached(cache, addresses) ==
  [cached |-> SelectSeq(addresses,
                 LAMBDA a : MapHas(cache, a) /\ Fresh(MapGet(cache, a))),
   uncached |-> SelectSeq(addresses,
                 LAMBDA a : ~(MapHas(cache, a) /\ Fresh(MapGet(cache, a))))]

\* the first entry of smallest timestamp (Array.sort is stable)
OldestIdx(cache) ==
  CHOOSE i \in 1..Len(cache) :
    /\ \A j \in 1..Len(cache) : cache[i].v.timestamp <= cache[j].v.timestamp
    /\ \A j \in 1..(i - 1) : cache[j].v.timestamp > cache[i].v.timestamp

\* an insertion that evicts the entry first in insertion order
cacheWallet_EvictsFirst(cache, address, whale) ==
  LET c2 == MapSet(cache, address,
              [wallet |-> whale, timestamp |-> now,
               cacheTTL |-> IF whale = "hi" THEN HighTTL ELSE DefaultTTL])
  IN IF Len(c2) > MaxCacheSize THEN Tail(c2) ELSE c2

cacheWallet(cache, address, whale) ==
  LET c2 == MapSet(cache, address,
              [wallet |-> whale, timestamp |-> now,
               cacheTTL |-> IF whale = "hi" THEN HighTTL ELSE DefaultTTL])
  IN IF Len(c2) > MaxCacheSize THEN MapDelete(c2, c2[OldestIdx(c2)].k) ELSE c2

RECURSIVE cacheAll(_, _)
\* batchResults.forEach(... this.cacheWallet(address, whale))
cacheAll(cache, m) ==
  IF m = <<>> THEN cache
  ELSE cacheAll(cacheWallet(cache, m[1].k, m[1].v), Tail(m))

RECURSIVE setAll(_, _)
\* m2.forEach((v, k) => m.set(k, v))
setAll(m, m2) ==
  IF m2 = <<>> THEN m ELSE setAll(MapSet(m, m2[1].k, m2[1].v), Tail(m2))

\* getCachedWhales: every address that has an entry, whatever its age
getCachedWhales(cache, addresses) ==
  LET has == SelectSeq(addresses, LAMBDA a : MapHas(cache, a))
  IN setAll(<<>>, [i \in 1..Len(has) |-> [k |-> has[i], v |-> MapGet(cache, has[i]).wallet]])

SolPriceFresh(cache) ==
  MapHas(cache, "SOL_PRICE") /\ now - MapGet(cache, "SOL_PRICE").timestamp < SolPriceTTL

\* getSolPriceOptimized, when it fetches a price: a write with no eviction
cacheSolPrice(cache) ==
  MapSet(cache, "SOL_PRICE", [wallet |-> "price", timestamp |-> now, cacheTTL |-> SolPriceTTL])

\* ---------------------------------------------------------- rate limiter
Calls == 1..MaxCalls
Weights == 1..MaxWeight
burstLimit == maxRequestsPerSecond * BurstFactor

RECURSIVE SumWeights(_)
\* reduce((sum, req) => sum + req.weight, 0)
SumWeights(reqs) == IF reqs = <<>> THEN 0 ELSE reqs[1].weight + SumWeights(Tail(reqs))

InLastSecond(req) == req.timestamp > rlNow - WindowTicks

cleanupOldRequests(reqs) == SelectSeq(reqs, InLastSecond)

getCurrentLoad(reqs) == SumWeights(reqs)

getRequestsInLastSecond(reqs) == SumWeights(SelectSeq(reqs, InLastSecond))

\* checkSlot's test, on the window that cleanupOldRequests left
slotFree(reqs, weight) ==
  /\ ~(getCurrentLoad(reqs) + weight > burstLimit)
  /\ ~(getRequestsInLastSecond(reqs) + weight > maxRequestsPerSecond)

recordRequest(reqs, c, weight) ==
  Append(reqs, [timestamp |-> rlNow, weight |-> weight, id |-> c])

\* Array.pop
removeLastRequest(reqs) == IF reqs = <<>> THEN reqs ELSE SubSeq(reqs, 1, Len(reqs) - 1)

\* A continuation waits in the microtask queue: it runs before any timer or
\* I/O callback, but after the synchronous code that is running now.
MicrotaskPending == \E c \in Calls : calls[c].pc = "admitted"

\* execute(fn, weight) is called: waitForSlot runs checkSlot at once; what
\* follows `await this.waitForSlot(weight)` is a continuation
Execute(c, w) ==
  /\ UNCHANGED outsideRateLimiter
  /\ calls[c].pc = "new"
  /\ \A d \in Calls : d < c => calls[d].pc # "new"
  /\ requests' = cleanupOldRequests(requests)
  /\ calls' = [calls EXCEPT ![c] =
        [pc |-> IF slotFree(requests', w) THEN "admitted" ELSE "polling",
         weight |-> w, at |-> 0, polled |-> FALSE]]
  /\ UNCHANGED rlNow

\* the continuation of an admitted call: recordRequest, then fn() is called
RecordRequest(c) ==
  /\ UNCHANGED outsideRateLimiter
  /\ calls[c].pc = "admitted"
  /\ requests' = recordRequest(requests, c, calls[c].weight)
  /\ calls' = [calls EXCEPT ![c].pc = "running", ![c].at = rlNow]
  /\ UNCHANGED rlNow

\* setTimeout(checkSlot, 10) fires; when the slot is free the continuation
\* runs before the next callback
CheckSlot(c) ==
  /\ UNCHANGED outsideRateLimiter
  /\ calls[c].pc = "polling"
  /\ ~MicrotaskPending
  /\ LET reqs == cleanupOldRequests(requests)
     IN IF slotFree(reqs, calls[c].weight)
        THEN /\ requests' = recordRequest(reqs, c, calls[c].weight)
             /\ calls' = [calls EXCEPT ![c].pc = "running", ![c].at = rlNow]
        ELSE /\ requests' = reqs
             /\ calls' = [calls EXCEPT ![c].polled = ~@]
  /\ UNCHANGED rlNow

\* fn() settles: a rejection is caught, removeLastRequest, and thrown again
FnSettles(c, ok) ==
  /\ UNCHANGED outsideRateLimiter
  /\ calls[c].pc = "running"
  /\ ~MicrotaskPending
  /\ requests' = IF ok THEN requests ELSE removeLastRequest(requests)
  /\ calls' = [calls EXCEPT ![c].pc = IF ok THEN "ok" ELSE "failed"]
  /\ UNCHANGED rlNow

RlTick ==
  /\ UNCHANGED outsideRateLimiter
  /\ ~MicrotaskPending
  /\ rlNow < MaxRlNow
  /\ rlNow' = rlNow + 1
  /\ UNCHANGED <<requests, calls>>

\* Time goes on past the last clock value the model names: the clock keeps
\* its value and every recorded time moves one tick into the past, down to
\* the edge of the window, where a sample has expired for good.
RlTickOn ==
  /\ UNCHANGED outsideRateLimiter
  /\ ~MicrotaskPending
  /\ rlNow = MaxRlNow
  /\ requests' = [i \in 1..Len(requests) |->
                    [requests[i] EXCEPT !.timestamp =
                       IF @ > rlNow - WindowTicks THEN @ - 1 ELSE @]]
  /\ calls' = [c \in Calls |-> [calls[c] EXCEPT !.at = IF @ > 0 THEN @ - 1 ELSE 0]]
  /\ UNCHANGED rlNow

\* ------------------------------------------------------- circuit breaker
BreakerCalls == 1..MaxBreakerCalls

Breaker == [state |-> state, failures |-> failures,
            lastFailureTime |-> lastFailureTime, successCount |-> successCount]

\* a breaker that never refuses a call
breakerOpen_Never(b) == FALSE

\* execute throws 'Circuit breaker is OPEN'
breakerOpen(b) ==
  b.state = "OPEN" /\ ~(breakerNow - b.lastFailureTime > recoveryTimeout)

\* a head of execute that lets the call through and leaves the state alone
enterExecute_StaysOpen(b) == b

\* the head of execute, when it does not throw
enterExecute(b) ==
  IF b.state = "OPEN" /\ breakerNow - b.lastFailureTime > recoveryTimeout
  THEN [b EXCEPT !.state = "HALF_OPEN", !.successCount = 0]
  ELSE b

\* a success that keeps the failure counter
onSuccess_KeepsFailures(b) ==
  LET b2 == [b EXCEPT !.successCount = @ + 1]
  IN IF b.state = "HALF_OPEN"
     THEN IF b2.successCount >= successThreshold THEN [b2 EXCEPT !.state = "CLOSED"] ELSE b2
     ELSE b

onSuccess(b) ==
  LET b1 == [b EXCEPT !.failures = 0]
      b2 == [b1 EXCEPT !.successCount = @ + 1]
  IN IF b1.state = "HALF_OPEN"
     THEN IF b2.successCount >= successThreshold THEN [b2 EXCEPT !.state = "CLOSED"] ELSE b2
     ELSE b1

onFailure(b) ==
  LET b1 == [b EXCEPT !.failures = @ + 1, !.lastFailureTime = breakerNow]
  IN IF b1.failures >= failureThreshold THEN [b1 EXCEPT !.state = "OPEN"] ELSE b1

SetBreaker(b) ==
  /\ state' = b.state
  /\ failures' = b.failures
  /\ lastFailureTime' = b.lastFailureTime
  /\ successCount' = b.successCount

\* execute(fn) is called: it throws, or it calls fn() and waits for it.
\* before: the state the call found; invokedIn: the state when fn was called
BreakerExecute(c) ==
  /\ UNCHANGED outsideBreaker
  /\ breakerCalls[c].pc = "new"
  /\ \A d \in BreakerCalls : d < c => breakerCalls[d].pc # "new"
  /\ IF breakerOpen(Breaker)
     THEN /\ breakerCalls' = [breakerCalls EXCEPT ![c].pc = "rejected", ![c].before = state]
          /\ UNCHANGED <<state, failures, lastFailureTime, successCount>>
     ELSE /\ SetBreaker(enterExecute(Breaker))
          /\ breakerCalls' = [breakerCalls EXCEPT ![c] =
                [pc |-> "running", before |-> state,
                 invokedIn |-> enterExecute(Breaker).state]]
  /\ UNCHANGED <<breakerNow, outcomes>>

\* fn() settles: onSuccess, or onFailure and the error is thrown again
FnReturns(c, ok) ==
  /\ UNCHANGED outsideBreaker
  /\ breakerCalls[c].pc = "running"
  /\ SetBreaker(IF ok THEN onSuccess(Breaker) ELSE onFailure(Breaker))
  /\ breakerCalls' = [breakerCalls EXCEPT ![c].pc = IF ok THEN "ok" ELSE "failed"]
  /\ outcomes' = Append(outcomes, ok)
  /\ UNCHANGED breakerNow

BreakerTick ==
  /\ UNCHANGED outsideBreaker
  /\ breakerNow < MaxBreakerNow
  /\ breakerNow' = breakerNow + 1
  /\ UNCHANGED <<state, failures, lastFailureTime, successCount, breakerCalls, outcomes>>

\* ------------------------------------------------------- batch processor
Jobs == 1..MaxJobs
Priorities == {1, 5}
ItemLists == {[i \in 1..n |-> i] : n \in 0..MaxItems}

\* chunks: "pending", "ok" or "failed" for each processor call of the job;
\* results: what each call returned; value: what the job's promise resolved
\* with; order (history): the job's chunks in the order they settled
NewJob == [pc |-> "new", priority |-> 0, items |-> <<>>, chunks |-> <<>>,
           results |-> <<>>, value |-> <<>>, order |-> <<>>]

\* what a processor call returns for a chunk: a result for each item, named
\* by its item
ProcessorOutputs(chunk) == {chunk}

RECURSIVE flat(_)
\* Array.flat(): the elements of the arrays, in order
flat(arrays) == IF arrays = <<>> THEN <<>> ELSE Head(arrays) \o flat(Tail(arrays))

\* a job's results taken in the order its chunks settled
resolveValue_CompletionOrder(job) ==
  flat([i \in 1..Len(job.order) |-> job.results[job.order[i]]])

\* (await Promise.all(promises)).flat(): Promise.all keeps the promises' order
resolveValue(job) == flat(job.results)

\* the flag that startProcessing leaves unset
processingFlag_NotSet == FALSE

\* startProcessing: this.processing = true
processingFlag == TRUE

\* a queue that keeps the order of arrival
sortByPriority_Arrival(q, js) == q

RECURSIVE sortByPriority(_, _)
\* queue.sort((a, b) => b.priority - a.priority): stable, highest first
sortByPriority(q, js) ==
  IF q = <<>> THEN <<>>
  ELSE LET rest == sortByPriority(Tail(q), js)
           p == js[Head(q)].priority
           \* the head goes behind the jobs of higher priority only: it stood
           \* before the jobs of its own priority, and stays before them
           n == Cardinality({i \in 1..Len(rest) : js[rest[i]].priority > p})
       IN SubSeq(rest, 1, n) \o <<Head(q)>> \o SubSeq(rest, n + 1, Len(rest))

\* the body of startProcessing's loop up to its await: the first job of the
\* queue is taken and each of its chunks is handed to the processor
takeNext(q, js) ==
  LET j == Head(q)
      n == Len(chunkArray(js[j].items, processorBatchSize))
  IN [queue |-> Tail(q),
      jobs |-> [js EXCEPT ![j].pc = "running", ![j].chunks = [i \in 1..n |-> "pending"],
                          ![j].results = [i \in 1..n |-> <<>>]],
      current |-> j,
      loopReady |-> (n = 0),
      handed |-> handed \o [i \in 1..n |-> j]]

SetProcessor(r) ==
  /\ queue' = r.queue
  /\ jobs' = r.jobs
  /\ current' = r.current
  /\ loopReady' = r.loopReady
  /\ handed' = r.handed

\* process(items, priority): the job is pushed, the queue sorted, and the
\* loop started when it is not running
Process(j, items, priority) ==
  /\ UNCHANGED outsideProcessor
  /\ jobs[j].pc = "new"
  /\ \A i \in Jobs : i < j => jobs[i].pc # "new"
  /\ LET js == [jobs EXCEPT ![j] = [NewJob EXCEPT !.pc = "queued", !.priority = priority,
                                                  !.items = items]]
         q == sortByPriority(Append(queue, j), js)
     IN IF processing
        THEN /\ queue' = q
             /\ jobs' = js
             /\ UNCHANGED <<processing, current, loopReady, handed, loops>>
        ELSE /\ processing' = processingFlag
             /\ loops' = loops + 1
             /\ SetProcessor(takeNext(q, js))

\* a processor call settles; Promise.all settles with the first rejection,
\* or with the last fulfilment
ChunkSettles(j, k, ok) ==
  /\ UNCHANGED outsideProcessor
  /\ ~loopReady
  /\ k \in 1..Len(jobs[j].chunks)
  /\ jobs[j].chunks[k] = "pending"
  /\ \E out \in ProcessorOutputs(chunkArray(jobs[j].items, processorBatchSize)[k]) :
       jobs' = [jobs EXCEPT ![j].chunks[k] = IF ok THEN "ok" ELSE "failed",
                            ![j].results[k] = IF ok THEN out ELSE <<>>,
                            ![j].order = Append(@, k)]
  /\ loopReady' = (/\ j = current
                   /\ \/ ~ok
                      \/ \A i \in 1..Len(jobs[j].chunks) : i # k => jobs[j].chunks[i] = "ok")
  /\ UNCHANGED <<queue, processing, current, handed, loops>>

\* a loop that a rejection ends: the job is rejected and no job is taken
DrainContinues_StopsOnReject ==
  /\ UNCHANGED outsideProcessor
  /\ loopReady
  /\ LET failed == \E i \in 1..Len(jobs[current].chunks) : jobs[current].chunks[i] = "failed"
         js == [jobs EXCEPT ![current].pc = IF failed THEN "rejected" ELSE "resolved",
                            ![current].value = IF failed THEN <<>> ELSE resolveValue(jobs[current])]
     IN IF failed
        THEN /\ jobs' = js
             /\ current' = 0
             /\ loopReady' = FALSE
             /\ UNCHANGED <<queue, processing, handed, loops>>
        ELSE IF queue # <<>>
        THEN /\ SetProcessor(takeNext(queue, js))
             /\ UNCHANGED <<processing, loops>>
        ELSE /\ processing' = FALSE
             /\ loops' = loops - 1
             /\ jobs' = js
             /\ current' = 0
             /\ loopReady' = FALSE
             /\ UNCHANGED <<queue, handed>>

\* the loop continues after its await: the job is resolved or rejected, then
\* the next job is taken, or the loop ends
DrainContinues ==
  /\ UNCHANGED outsideProcessor
  /\ loopReady
  /\ LET failed == \E i \in 1..Len(jobs[current].chunks) : jobs[current].chunks[i] = "failed"
         js == [jobs EXCEPT ![current].pc = IF failed THEN "rejected" ELSE "resolved",
                            ![current].value = IF failed THEN <<>> ELSE resolveValue(jobs[current])]
     IN IF queue # <<>>
        THEN /\ SetProcessor(takeNext(queue, js))
             /\ UNCHANGED <<processing, loops>>
        ELSE /\ processing' = FALSE
             /\ loops' = loops - 1
             /\ jobs' = js
             /\ current' = 0
             /\ loopReady' = FALSE
             /\ UNCHANGED <<queue, handed>>

\* ------------------------------------------------------------- scheduler
\* The clock's epoch is tick 0.  The process starts shortly before the end
\* of the first month, more than a day after the epoch.
StartTimes == (MonthTicks - MaxStart)..(MonthTicks - 1)
MaxNow == MonthTicks + MaxAfter

Cycles == 1..MaxCycles
Refreshes == (MaxCycles + 1)..(MaxCycles + MaxRefresh)
Tasks == Cycles \cup Refreshes

\* ticked: a tick passed during the task's current wait (history)
\* cand (history): the addresses the cycle gave to trackWalletsOptimized
\* holders (history): how many addresses the token-holders request returned
\*   to the cycle, -1 when there was no such request
\* threw (history): the cycle ended with an exception in trackingLoop's try
\* woke (history): when the cycle passed trackingLoop's credit test
IdleTask == [pc |-> "idle", batches |-> <<>>, idx |-> 0, batchResults |-> <<>>,
             results |-> <<>>, addr |-> "", ticked |-> FALSE,
             cand |-> <<>>, holders |-> -1, threw |-> FALSE, woke |-> 0]

\* the time a cycle's task woke: now when the task starts in this step
WokeAt(t) == IF t \in Cycles /\ tasks[t].pc = "idle" THEN now ELSE tasks[t].woke

\* a stretch of trackWalletsOptimized, with the history of its cycle
Tag(out, cand, holders) ==
  [out EXCEPT !.task = [@ EXCEPT !.cand = cand, !.holders = holders]]

\* storage.loadWhales(): nothing saved, or a saved set
SavedWhales == {<<>>, <<[k |-> "w1", v |-> Whale("w1")], [k |-> "w2", v |-> Whale("w2")]>>}

Sched == [isTracking |-> isTracking, pendingLoop |-> pendingLoop]

\* startSmartTracking without its first line: every call sets the timer
startSmartTracking_NoGuard(st) ==
  [isTracking |-> TRUE, pendingLoop |-> Min(st.pendingLoop + 1, MaxCycles)]

\* startSmartTracking: the re-entrancy guard, then the first-cycle timer
startSmartTracking(st) ==
  IF st.isTracking THEN st
  ELSE [isTracking |-> TRUE, pendingLoop |-> st.pendingLoop + 1]

shouldRediscover == (now - lastFullUpdate) > HoursPerDay

\* a pre-check that lets every cycle run
lowCredits_Never(cu) == FALSE

\* trackingLoop: creditUsage.remaining < 50000
lowCredits(cu) == cu.remaining < MinCycleCredits

calculateOptimalInterval(cu) ==
  IF getDailyRemainingCredits(cu) < DailyLow THEN LowDailyInterval
  ELSE IF getDailyRemainingCredits(cu) > DailyHigh THEN HighDailyInterval
  ELSE REFRESH_INTERVAL

\* ------------------------------------------------- trackWalletsOptimized
Done(s, results) == [s |-> s, done |-> TRUE, results |-> results, task |-> IdleTask]

\* the head of the for-loop over the batches: the credit check, then the
\* first analyzer call of processBatchOptimized
batchLoop(s, results, batches) ==
  IF batches = <<>> THEN Done(s, results)
  ELSE LET s1 == checkCreditUsage(s)
       IN IF ~creditAnswer(s1.cu) THEN Done(s1, results)
          ELSE [s |-> s1, done |-> FALSE, results |-> results,
                task |-> [IdleTask EXCEPT !.pc = "analyzing", !.batches = batches,
                                          !.idx = 1, !.results = results]]

trackWalletsOptimized(s, addresses) ==
  LET s1 == checkCreditUsage(s)
      limited == SubSeq(addresses, 1, Min(Len(addresses), maxWalletsToTrack))
      sp == splitCachedUncached(s1.cache, limited)
      results0 == setAll(<<>>, [i \in 1..Len(sp.cached) |->
                     [k |-> sp.cached[i], v |-> MapGet(s1.cache, sp.cached[i]).wallet]])
  IN IF ~creditAnswer(s1.cu) THEN Done(s1, getCachedWhales(s1.cache, addresses))
     ELSE batchLoop(s1, results0, chunkArray(sp.uncached, batchSize))

\* a loop that the first address without a whale ends
afterAnalyze_FailureEnds(s, tk, found) ==
  LET batch == tk.batches[1]
      address == batch[tk.idx]
      br == IF found THEN MapSet(tk.batchResults, address, Whale(address))
            ELSE tk.batchResults
      s2 == recordCreditUsage(s, AnalyzeCredits)
  IN IF ~found
     THEN Tag(Done(s2, tk.results), tk.cand, tk.holders)
     ELSE IF tk.idx < Len(batch)
     THEN [s |-> s2, done |-> FALSE, results |-> tk.results,
           task |-> [tk EXCEPT !.idx = @ + 1, !.batchResults = br]]
     ELSE [s |-> [s2 EXCEPT !.cache = cacheAll(s2.cache, br)], done |-> FALSE,
           results |-> setAll(tk.results, br),
           task |-> [tk EXCEPT !.pc = "sleeping", !.idx = 0, !.batchResults = <<>>,
                               !.results = setAll(tk.results, br)]]

\* processBatchOptimized once analyzeWalletOptimized has returned for the
\* current address: the whale, if any, joins the batch's results, the call
\* is charged, and the loop goes to the next address; after the last one
\* trackWalletsOptimized stores and caches the batch's results and sleeps
afterAnalyze(s, tk, found) ==
  LET batch == tk.batches[1]
      address == batch[tk.idx]
      br == IF found THEN MapSet(tk.batchResults, address, Whale(address))
            ELSE tk.batchResults
      s2 == recordCreditUsage(s, AnalyzeCredits)
  IN IF tk.idx < Len(batch)
     THEN [s |-> s2, done |-> FALSE, results |-> tk.results,
           task |-> [tk EXCEPT !.idx = @ + 1, !.batchResults = br]]
     ELSE [s |-> [s2 EXCEPT !.cache = cacheAll(s2.cache, br)], done |-> FALSE,
           results |-> setAll(tk.results, br),
           task |-> [tk EXCEPT !.pc = "sleeping", !.idx = 0, !.batchResults = <<>>,
                               !.results = setAll(tk.results, br)]]

\* the rest of a trackingLoop activation, once trackWalletsOptimized returned
CycleEnd(t, out) ==
  /\ trackedWallets' = setAll(trackedWallets, out.results)
  /\ lastFullUpdate' = now
  /\ wakeTimers' = Append(wakeTimers, calculateOptimalInterval(out.s.cu))
  /\ tasks' = [tasks EXCEPT ![t] = [out.task EXCEPT !.woke = WokeAt(t)]]

\* the rest of POST /refresh/:address
RefreshEnd(t, address, out) ==
  /\ trackedWallets' = IF MapHas(out.results, address)
                          THEN MapSet(trackedWallets, address, MapGet(out.results, address))
                          ELSE trackedWallets
  /\ tasks' = [tasks EXCEPT ![t] = IdleTask]
  /\ UNCHANGED <<lastFullUpdate, wakeTimers>>

\* where a task goes after a stretch of trackWalletsOptimized
Continue(t, address, out) ==
  /\ creditUsage' = out.s.cu
  /\ lastCreditCheck' = out.s.lcc
  /\ walletCache' = out.s.cache
  /\ recorded' = out.s.rec
  /\ lastCheck' = out.s.chk
  /\ today' = out.s.day
  /\ IF ~out.done
     THEN /\ tasks' = [tasks EXCEPT ![t] = [out.task EXCEPT !.addr = address,
                                                           !.ticked = FALSE,
                                                           !.woke = WokeAt(t)]]
          /\ UNCHANGED <<trackedWallets, lastFullUpdate, wakeTimers>>
     ELSE IF t \in Cycles THEN CycleEnd(t, out) ELSE RefreshEnd(t, address, out)

\* --------------------------------------------- the wallet cache, alone
SeqToSet(q) == {q[i] : i \in 1..Len(q)}

\* the keys of a list whose entry is present and fresh
FreshKeys(cache, addresses) ==
  {a \in SeqToSet(addresses) : MapHas(cache, a) /\ Fresh(MapGet(cache, a))}

\* the keys an insertion of address has evicted, and where the evicted
\* entry stood in the map's (insertion) order
EvictedKeys(cache, address, after) ==
  (SeqToSet(MapKeys(cache)) \cup {address}) \ SeqToSet(MapKeys(after))
EvictedPosition(cache, address, after) ==
  IF EvictedKeys(cache, address, after) = {} THEN 0
  ELSE LET k == CHOOSE x \in EvictedKeys(cache, address, after) : TRUE
       IN IF MapHas(cache, k) THEN MapIdx(cache, k) ELSE Len(cache) + 1

\* trackWalletsOptimized stores a whale it fetched
CacheWallet(address) ==
  /\ UNCHANGED outsideCache
  /\ walletCache' = cacheWallet(walletCache, address, Whale(address))
  /\ cacheOp' = [op |-> "cacheWallet", address |-> address, returned |-> {}, fresh |-> {},
                 evicted |-> EvictedKeys(walletCache, address, walletCache'),
                 position |-> EvictedPosition(walletCache, address, walletCache')]
  /\ UNCHANGED now

\* trackWalletsOptimized reads the cache when credits are left: the values
\* of splitCachedUncached's cached addresses go into its results
SplitCachedUncached(addresses) ==
  /\ UNCHANGED outsideCache
  /\ cacheOp' = [op |-> "splitCachedUncached", address |-> "",
                 returned |-> SeqToSet(splitCachedUncached(walletCache, addresses).cached),
                 fresh |-> FreshKeys(walletCache, addresses), evicted |-> {}, position |-> 0]
  /\ UNCHANGED <<now, walletCache>>

\* trackWalletsOptimized reads the cache when checkCreditUsage answers false
GetCachedWhales(addresses) ==
  /\ UNCHANGED outsideCache
  /\ cacheOp' = [op |-> "getCachedWhales", address |-> "",
                 returned |-> SeqToSet(MapKeys(getCachedWhales(walletCache, addresses))),
                 fresh |-> FreshKeys(walletCache, addresses), evicted |-> {}, position |-> 0]
  /\ UNCHANGED <<now, walletCache>>

\* getSolPriceOptimized: the cached price when it is fresh, else a request,
\* whose answer is stored
GetSolPriceOptimized(priceFetched) ==
  /\ UNCHANGED outsideCache
  /\ IF SolPriceFresh(walletCache)
     THEN /\ cacheOp' = [op |-> "getSolPrice", address |-> "", returned |-> {"SOL_PRICE"},
                         fresh |-> FreshKeys(walletCache, <<"SOL_PRICE">>), evicted |-> {}, position |-> 0]
          /\ UNCHANGED walletCache
     ELSE /\ cacheOp' = [op |-> "getSolPrice", address |-> "", returned |-> {}, fresh |-> {}, evicted |-> {}, position |-> 0]
          /\ walletCache' = IF priceFetched THEN cacheSolPrice(walletCache) ELSE walletCache
  /\ UNCHANGED now

CacheTick ==
  /\ UNCHANGED outsideCache
  /\ now < MaxNow
  /\ now' = now + 1
  /\ UNCHANGED <<walletCache, cacheOp>>

\* --------------------------------------------------------------- actions
Init ==
  /\ now \in StartTimes
  /\ moduleLoaded = FALSE
  /\ heliusService = FALSE
  /\ creditUsage = InitialCreditUsage(now)
  /\ lastCreditCheck = 0
  /\ walletCache = <<>>
  /\ trackedWallets = <<>>
  /\ lastFullUpdate = 0
  /\ isTracking = FALSE
  /\ pendingLoop = 0
  /\ wakeTimers = <<>>
  /\ tasks = [t \in Tasks |-> IdleTask]
  /\ recorded = 0
  /\ lastCheck = [made |-> FALSE, answer |-> FALSE, monthlyLeft |-> TRUE, dailyLeft |-> TRUE]
  /\ reentrantCalls = 0
  /\ today = [recorded |-> 0, checked |-> FALSE]
  /\ timerTicked = FALSE
  /\ rlNow = 0
  /\ requests = <<>>
  /\ calls = [c \in Calls |-> [pc |-> "new", weight |-> 0, at |-> 0, polled |-> FALSE]]
  /\ breakerNow = 0
  /\ state = "CLOSED"
  /\ failures = 0
  /\ lastFailureTime = 0
  /\ successCount = 0
  /\ breakerCalls = [c \in BreakerCalls |-> [pc |-> "new", before |-> "", invokedIn |-> ""]]
  /\ outcomes = <<>>
  /\ cacheOp = [op |-> "none", address |-> "", returned |-> {}, fresh |-> {}, evicted |-> {}, position |-> 0]
  /\ queue = <<>>
  /\ processing = FALSE
  /\ jobs = [j \in Jobs |-> NewJob]
  /\ current = 0
  /\ loopReady = FALSE
  /\ handed = <<>>
  /\ loops = 0
  /\ whaleWallets = <<>>
  /\ isProcessing = FALSE
  /\ fetches = [f \in Fetches |-> NewFetch]
  /\ manual = [h \in Handlers |-> [pc |-> "new", address |-> ""]]
  /\ whaleClock = 1

\* the module's last statement: initializeService(), which throws when the
\* API key is missing and otherwise constructs the service, loads the saved
\* whales and starts the tracking
InitializeService(apiKey, saved) ==
  /\ UNCHANGED outsideService
  /\ ~moduleLoaded
  /\ moduleLoaded' = TRUE
  /\ heliusService' = apiKey
  /\ trackedWallets' = IF apiKey THEN saved ELSE trackedWallets
  /\ isTracking' = IF apiKey THEN startSmartTracking(Sched).isTracking ELSE isTracking
  /\ pendingLoop' = IF apiKey THEN startSmartTracking(Sched).pendingLoop ELSE pendingLoop
  /\ UNCHANGED <<now, walletCache, lastFullUpdate, tasks, wakeTimers, reentrantCalls,
                 timerTicked>>
  /\ UNCHANGED ledgerVars

Running == {c \in Cycles : tasks[c].pc # "idle"}

\* startSmartTracking called again once the tracking has been started
StartSmartTracking ==
  /\ UNCHANGED outsideService
  /\ isTracking
  /\ isTracking' = startSmartTracking(Sched).isTracking
  /\ pendingLoop' = startSmartTracking(Sched).pendingLoop
  /\ reentrantCalls' = IF Running # {} THEN 1 ELSE reentrantCalls
  /\ UNCHANGED <<wakeTimers, timerTicked>>
  /\ UNCHANGED ledgerVars
  /\ UNCHANGED svcVars

\* the callback of scheduleNextUpdate's timer
WakeUp(i) ==
  /\ UNCHANGED outsideService
  /\ i \in 1..Len(wakeTimers)
  /\ wakeTimers' = SubSeq(wakeTimers, 1, i - 1) \o SubSeq(wakeTimers, i + 1, Len(wakeTimers))
  /\ isTracking' = IF isTracking THEN startSmartTracking(Sched).isTracking ELSE isTracking
  /\ pendingLoop' = IF isTracking THEN startSmartTracking(Sched).pendingLoop ELSE pendingLoop
  /\ UNCHANGED <<reentrantCalls, timerTicked>>
  /\ UNCHANGED ledgerVars
  /\ UNCHANGED svcVars

FreeSlot(S) == CHOOSE t \in S : tasks[t].pc = "idle" /\ \A u \in S : tasks[u].pc = "idle" => t <= u

\* the first-cycle timer fires: trackingLoop up to its first wait
TrackingLoop ==
  /\ UNCHANGED outsideService
  /\ pendingLoop > 0
  /\ \E c \in Cycles : tasks[c].pc = "idle"
  /\ pendingLoop' = pendingLoop - 1
  /\ timerTicked' = FALSE
  /\ UNCHANGED <<now, moduleLoaded, heliusService, isTracking, reentrantCalls>>
  /\ LET c == FreeSlot(Cycles) IN
     IF lowCredits(creditUsage)
     THEN /\ wakeTimers' = Append(wakeTimers, CooldownDelay)
          /\ UNCHANGED <<walletCache, trackedWallets, lastFullUpdate, tasks>>
          /\ UNCHANGED ledgerVars
     ELSE IF Len(trackedWallets) < MinTrackedWallets \/ shouldRediscover
     THEN \* discoverWhalesOptimized up to the token-holders request
          LET s1 == checkCreditUsage(Svc)
          IN IF ~creditAnswer(s1.cu)
             THEN Continue(c, "", Tag(trackWalletsOptimized(s1, KNOWN_WHALES), KNOWN_WHALES, -1))
             ELSE Continue(c, "", [s |-> s1, done |-> FALSE, results |-> <<>>,
                                   task |-> [IdleTask EXCEPT !.pc = "discovering"]])
     ELSE Continue(c, "", Tag(trackWalletsOptimized(Svc, MapKeys(trackedWallets)),
                              MapKeys(trackedWallets), -1))

\* the token-holders request returns: the rest of discoverWhalesOptimized,
\* then trackWalletsOptimized up to its first wait
DiscoverReturn(c, holders) ==
  /\ UNCHANGED outsideService
  /\ c \in Cycles
  /\ tasks[c].pc = "discovering"
  /\ UNCHANGED <<now, moduleLoaded, heliusService>>
  /\ UNCHANGED schedVarsButWake
  /\ LET s1 == recordCreditUsage(Svc, DiscoverCredits)
         all == Unique(KNOWN_WHALES \o holders)
         uniqueWallets == SubSeq(all, 1, Min(Len(all), maxWalletsToTrack))
     IN Continue(c, "", Tag(trackWalletsOptimized(s1, uniqueWallets), uniqueWallets,
                            Len(holders)))

\* analyzeWalletOptimized returns for the current address of the batch
AnalyzeReturn(t, found, priceFetched) ==
  /\ UNCHANGED outsideService
  /\ tasks[t].pc = "analyzing"
  /\ UNCHANGED <<now, moduleLoaded, heliusService>>
  /\ UNCHANGED schedVarsButWake
  /\ LET s1 == IF priceFetched /\ ~SolPriceFresh(walletCache)
               THEN [Svc EXCEPT !.cache = cacheSolPrice(walletCache)] ELSE Svc
     IN Continue(t, tasks[t].addr, afterAnalyze(s1, tasks[t], found))

\* sleep(500) is over: the next batch, or the end of trackWalletsOptimized
SleepDone(t) ==
  /\ UNCHANGED outsideService
  /\ tasks[t].pc = "sleeping"
  /\ UNCHANGED <<now, moduleLoaded, heliusService>>
  /\ UNCHANGED schedVarsButWake
  /\ Continue(t, tasks[t].addr, Tag(batchLoop(Svc, tasks[t].results, Tail(tasks[t].batches)),
                                    tasks[t].cand, tasks[t].holders))

\* A request of a cycle fails and the logger cannot write the error
\* (fs.appendFileSync throws): the exception passes the inner handlers, whose
\* own logger calls throw as well, and reaches the catch of trackingLoop.
\* That catch logs first and schedules the retry second: when its logger
\* call throws too (logFails), the exception leaves trackingLoop.
CycleThrows(c, logFails) ==
  /\ UNCHANGED outsideService
  /\ c \in Cycles
  /\ tasks[c].pc \in {"discovering", "analyzing"}
  /\ tasks' = [tasks EXCEPT ![c] = [IdleTask EXCEPT !.threw = TRUE, !.cand = tasks[c].cand,
                                                    !.holders = tasks[c].holders,
                                                    !.woke = tasks[c].woke]]
  /\ wakeTimers' = IF logFails THEN wakeTimers ELSE Append(wakeTimers, RetryDelay)
  /\ UNCHANGED <<now, moduleLoaded, heliusService, walletCache, trackedWallets, lastFullUpdate>>
  /\ UNCHANGED schedVarsButWake
  /\ UNCHANGED ledgerVars

\* POST /refresh/:address, for a valid address, up to its first wait
Refresh(address) ==
  /\ UNCHANGED outsideService
  /\ moduleLoaded
  /\ \E t \in Refreshes : tasks[t].pc = "idle"
  /\ UNCHANGED <<now, moduleLoaded, heliusService>>
  /\ UNCHANGED schedVarsButWake
  /\ IF ~heliusService \/ creditUsage.remaining < MinRefreshCredits
     THEN /\ UNCHANGED <<walletCache, trackedWallets, lastFullUpdate, tasks, wakeTimers>>
          /\ UNCHANGED ledgerVars
     ELSE Continue(FreeSlot(Refreshes), address, trackWalletsOptimized(Svc, <<address>>))

\* An hour boundary passes.  A request (timeouts of 30 s and 5 s), sleep(500)
\* and the 5 s timer each last less than an hour: one wait sees one tick at most.
Tick ==
  /\ UNCHANGED outsideService
  /\ moduleLoaded
  /\ now < MaxNow
  /\ \A t \in Tasks : ~tasks[t].ticked
  /\ ~timerTicked
  /\ now' = now + 1
  /\ tasks' = [t \in Tasks |-> [tasks[t] EXCEPT !.ticked = (tasks[t].pc # "idle")]]
  /\ timerTicked' = (pendingLoop > 0)
  /\ today' = IF getHours(now + 1) = 0 THEN [recorded |-> 0, checked |-> FALSE] ELSE today
  /\ UNCHANGED <<moduleLoaded, heliusService, walletCache, trackedWallets, lastFullUpdate>>
  /\ UNCHANGED <<isTracking, pendingLoop, wakeTimers, reentrantCalls>>
  /\ UNCHANGED <<creditUsage, lastCreditCheck, recorded, lastCheck>>

\* ------------------------------------------------- the Solscan fetcher
\* Array.findIndex, counted from 1; 0 where the source has -1
findIndex(ws, address) ==
  IF \E i \in 1..Len(ws) : ws[i].address = address
  THEN CHOOSE i \in 1..Len(ws) :
         /\ ws[i].address = address
         /\ \A j \in 1..(i - 1) : ws[j].address # address
  ELSE 0

\* the branch after an analysis that returned a whale: the entry at
\* existingIndex is replaced and keeps its discoveredDate, or the whale is
\* pushed
storeWhale(ws, existingIndex, whaleData) ==
  IF existingIndex >= 1
  THEN [ws EXCEPT ![existingIndex] =
          [whaleData EXCEPT !.discoveredDate = ws[existingIndex].discoveredDate]]
  ELSE Append(ws, whaleData)

\* whaleWallets.sort by totalBalanceUsd, highest first; the sort is stable
RECURSIVE sortByBalance(_)
sortByBalance(ws) ==
  IF ws = <<>> THEN <<>>
  ELSE LET rest == sortByBalance(Tail(ws))
           n == Cardinality({i \in 1..Len(rest) : rest[i].balance >= ws[1].balance})
       IN SubSeq(rest, 1, n) \o <<ws[1]>> \o SubSeq(rest, n + 1, Len(rest))

WhaleData(address, balance) ==
  [address |-> address, balance |-> balance, discoveredDate |-> whaleClock]

\* storage.loadWhales() when the module is loaded: the saved list, if any
LoadWhales ==
  /\ UNCHANGED outsideWhales
  /\ whaleWallets = <<>>
  /\ whaleClock = 1
  /\ \A f \in Fetches : fetches[f].pc = "new"
  /\ \A h \in Handlers : manual[h].pc = "new"
  /\ whaleWallets' = <<[address |-> "w2", balance |-> 1, discoveredDate |-> 0]>>
  /\ UNCHANGED <<isProcessing, fetches, manual, whaleClock>>

\* fetchWhales up to its first await: the guard, then the flag
FetchWhales(f) ==
  /\ UNCHANGED outsideWhales
  /\ fetches[f].pc = "new"
  /\ IF isProcessing
     THEN /\ fetches' = [fetches EXCEPT ![f].pc = "refused"]
          /\ UNCHANGED isProcessing
     ELSE /\ fetches' = [fetches EXCEPT ![f].pc = "discovering"]
          /\ isProcessing' = TRUE
  /\ UNCHANGED <<whaleWallets, manual, whaleClock>>

\* the head of the for-loop: the index of the address is looked up, then the
\* analysis is awaited; after the loop the list is sorted and the flag reset
fetchLoop(f, potentialWallets, i) ==
  IF i <= Min(Len(potentialWallets), MAX_WALLETS_TO_FETCH)
  THEN /\ fetches' = [fetches EXCEPT ![f] =
                        [pc |-> "analyzing", potentialWallets |-> potentialWallets, i |-> i,
                         existingIndex |-> findIndex(whaleWallets, potentialWallets[i])]]
       /\ UNCHANGED <<whaleWallets, isProcessing>>
  ELSE /\ fetches' = [fetches EXCEPT ![f] =
                        [pc |-> "done", potentialWallets |-> potentialWallets, i |-> i,
                         existingIndex |-> fetches[f].existingIndex]]
       /\ whaleWallets' = sortByBalance(whaleWallets)
       /\ isProcessing' = FALSE

\* updatePrice and discoverTopWallets have returned
DiscoverTopWalletsReturn(f, potentialWallets) ==
  /\ UNCHANGED outsideWhales
  /\ fetches[f].pc = "discovering"
  /\ fetchLoop(f, potentialWallets, 1)
  /\ UNCHANGED <<manual, whaleClock>>

\* analyzeWalletFromSolscan has returned in the loop of fetchWhales
\* (balance 0: no whale): the whale is stored at the index looked up before
\* the await, then sleep(200)
FetchAnalyzeReturn(f, balance) ==
  /\ UNCHANGED outsideWhales
  /\ fetches[f].pc = "analyzing"
  /\ LET address == fetches[f].potentialWallets[fetches[f].i]
     IN whaleWallets' = IF balance = 0 THEN whaleWallets
                        ELSE storeWhale(whaleWallets, fetches[f].existingIndex,
                                        WhaleData(address, balance))
  /\ fetches' = [fetches EXCEPT ![f].pc = "sleeping"]
  /\ whaleClock' = whaleClock + 1
  /\ UNCHANGED <<isProcessing, manual>>

\* analyzeWalletFromSolscan has thrown: the catch of the loop body, then the
\* next iteration without the sleep
FetchAnalyzeThrows(f) ==
  /\ UNCHANGED outsideWhales
  /\ fetches[f].pc = "analyzing"
  /\ fetchLoop(f, fetches[f].potentialWallets, fetches[f].i + 1)
  /\ UNCHANGED <<manual, whaleClock>>

\* sleep(200) is over
FetchSleepDone(f) ==
  /\ UNCHANGED outsideWhales
  /\ fetches[f].pc = "sleeping"
  /\ fetchLoop(f, fetches[f].potentialWallets, fetches[f].i + 1)
  /\ UNCHANGED <<manual, whaleClock>>

\* POST /analyze/:address up to its await: the address test, then the flag
\* test; the handler does not set the flag
PostAnalyze(h, address) ==
  /\ UNCHANGED outsideWhales
  /\ manual[h].pc = "new"
  /\ manual' = [manual EXCEPT ![h] =
        [pc |-> IF address \notin CacheAddrs THEN "invalid"
                ELSE IF isProcessing THEN "refused" ELSE "analyzing",
         address |-> address]]
  /\ UNCHANGED <<whaleWallets, isProcessing, fetches, whaleClock>>

\* analyzeWalletFromSolscan has returned in the handler (balance 0: no whale,
\* or an exception): the index is looked up now, then the whale is stored
PostAnalyzeReturn(h, balance) ==
  /\ UNCHANGED outsideWhales
  /\ manual[h].pc = "analyzing"
  /\ whaleWallets' = IF balance = 0 THEN whaleWallets
                     ELSE storeWhale(whaleWallets,
                                     findIndex(whaleWallets, manual[h].address),
                                     WhaleData(manual[h].address, balance))
  /\ manual' = [manual EXCEPT ![h].pc = "done"]
  /\ whaleClock' = whaleClock + 1
  /\ UNCHANGED <<isProcessing, fetches>>

vars == <<schedVars, ledgerVars, svcVars, rlVars, breakerVars, cacheOp, processorVars, whaleVars>>

\* The scheduler with its one service, when no manual refresh is requested.
NextSched ==
  \/ \E apiKey \in BOOLEAN, saved \in SavedWhales : InitializeService(apiKey, saved)
  \/ StartSmartTracking
  \/ \E i \in 1..Len(wakeTimers) : WakeUp(i)
  \/ TrackingLoop
  \/ \E c \in Cycles, holders \in HolderLists : DiscoverReturn(c, holders)
  \/ \E t \in Tasks, found \in BOOLEAN, priceFetched \in BOOLEAN :
        AnalyzeReturn(t, found, priceFetched)
  \/ \E t \in Tasks : SleepDone(t)
  \/ \E c \in Cycles, logFails \in BOOLEAN : CycleThrows(c, logFails)
  \/ Tick

SpecSched == Init /\ [][NextSched]_vars

\* The scheduler with a logger that works, timers that fire, requests that
\* return and time that passes.
NextSchedFair ==
  \/ \E apiKey \in BOOLEAN, saved \in SavedWhales : InitializeService(apiKey, saved)
  \/ StartSmartTracking
  \/ \E i \in 1..Len(wakeTimers) : WakeUp(i)
  \/ TrackingLoop
  \/ \E c \in Cycles, holders \in HolderLists : DiscoverReturn(c, holders)
  \/ \E t \in Tasks, found \in BOOLEAN, priceFetched \in BOOLEAN :
        AnalyzeReturn(t, found, priceFetched)
  \/ \E t \in Tasks : SleepDone(t)
  \/ Tick

SpecSchedFair ==
  /\ Init /\ [][NextSchedFair]_vars
  /\ WF_vars(TrackingLoop)
  /\ WF_vars(\E i \in 1..Len(wakeTimers) : WakeUp(i))
  /\ WF_vars(\E c \in Cycles, holders \in HolderLists : DiscoverReturn(c, holders))
  /\ WF_vars(\E t \in Tasks, found \in BOOLEAN, priceFetched \in BOOLEAN :
               AnalyzeReturn(t, found, priceFetched))
  /\ WF_vars(\E t \in Tasks : SleepDone(t))
  /\ WF_vars(Tick)

\* The service under manual refreshes, where the analyzer finds no whale and
\* the price service does not answer: every address costs a call every time.
NextLedger ==
  \/ \E apiKey \in BOOLEAN, saved \in SavedWhales : InitializeService(apiKey, saved)
  \/ \E i \in 1..Len(wakeTimers) : WakeUp(i)
  \/ TrackingLoop
  \/ \E c \in Cycles, holders \in HolderLists : DiscoverReturn(c, holders)
  \/ \E t \in Tasks : AnalyzeReturn(t, FALSE, FALSE)
  \/ \E t \in Tasks : SleepDone(t)
  \/ \E address \in Addrs : Refresh(address)
  \/ Tick

SpecLedger == Init /\ [][NextLedger]_vars

\* The Solscan fetcher: fetchWhales calls and POST /analyze handlers
NextWhales ==
  \/ LoadWhales
  \/ \E f \in Fetches : FetchWhales(f)
  \/ \E f \in Fetches, potentialWallets \in PotentialLists :
        DiscoverTopWalletsReturn(f, potentialWallets)
  \/ \E f \in Fetches, balance \in Balances \cup {0} : FetchAnalyzeReturn(f, balance)
  \/ \E f \in Fetches : FetchAnalyzeThrows(f)
  \/ \E f \in Fetches : FetchSleepDone(f)
  \/ \E h \in Handlers, address \in {"w1", "w2", "bad"} : PostAnalyze(h, address)
  \/ \E h \in Handlers, balance \in Balances \cup {0} : PostAnalyzeReturn(h, balance)

SpecWhales == Init /\ [][NextWhales]_vars

\* The service under one cycle and manual refreshes of one wallet, with
\* analyses that may find whales, so that later calls find cache entries.
NextTrack ==
  \/ \E apiKey \in BOOLEAN, saved \in SavedWhales : InitializeService(apiKey, saved)
  \/ TrackingLoop
  \/ \E c \in Cycles, holders \in {<<>>, <<"w2", "w3">>} : DiscoverReturn(c, holders)
  \/ \E t \in Tasks, found \in BOOLEAN : AnalyzeReturn(t, found, FALSE)
  \/ \E t \in Tasks : SleepDone(t)
  \/ Refresh("w2")
  \/ Tick

SpecTrack == Init /\ [][NextTrack]_vars

\* The rate limiter and its callers.
NextRL ==
  \/ \E c \in Calls, w \in Weights : Execute(c, w)
  \/ \E c \in Calls : RecordRequest(c)
  \/ \E c \in Calls : CheckSlot(c)
  \/ \E c \in Calls, ok \in BOOLEAN : FnSettles(c, ok)
  \/ RlTick

SpecRL == Init /\ [][NextRL]_vars

\* The rate limiter under timers that fire and time that goes on for ever.
NextRLFair ==
  \/ \E c \in Calls, w \in Weights : Execute(c, w)
  \/ \E c \in Calls : RecordRequest(c)
  \/ \E c \in Calls : CheckSlot(c)
  \/ \E c \in Calls, ok \in BOOLEAN : FnSettles(c, ok)
  \/ RlTick
  \/ RlTickOn

SpecRLFair ==
  /\ Init /\ [][NextRLFair]_vars
  /\ \A c \in Calls : WF_vars(CheckSlot(c)) /\ WF_vars(RecordRequest(c))
  /\ WF_vars(RlTick \/ RlTickOn)

\* The wallet cache under the operations the service performs on it.
NextCache ==
  \/ \E address \in CacheAddrs : CacheWallet(address)
  \/ \E addresses \in AddrLists : SplitCachedUncached(addresses)
  \/ \E addresses \in AddrLists : GetCachedWhales(addresses)
  \/ \E priceFetched \in BOOLEAN : GetSolPriceOptimized(priceFetched)
  \/ CacheTick

SpecCache == Init /\ [][NextCache]_vars

\* The batch processor, its callers and its processor.
NextProcessor ==
  \/ \E j \in Jobs, items \in ItemLists, priority \in Priorities : Process(j, items, priority)
  \/ \E j \in Jobs, k \in 1..MaxItems, ok \in BOOLEAN : ChunkSettles(j, k, ok)
  \/ DrainContinues

SpecProcessor == Init /\ [][NextProcessor]_vars

\* The same, with processor calls that terminate and a loop that continues
\* when its await has settled.
SpecProcessorFair ==
  /\ SpecProcessor
  /\ WF_vars(\E j \in Jobs, k \in 1..MaxItems, ok \in BOOLEAN : ChunkSettles(j, k, ok))
  /\ WF_vars(DrainContinues)

\* The circuit breaker and its callers.
NextBreaker ==
  \/ \E c \in BreakerCalls : BreakerExecute(c)
  \/ \E c \in BreakerCalls, ok \in BOOLEAN : FnReturns(c, ok)
  \/ BreakerTick

SpecBreaker == Init /\ [][NextBreaker]_vars

\* ---------------------------------------------------------------- claims
\* C1: the scheduler reschedules itself.  Every cycle ends by setting a
\* wake-up timer; the claim's second half, stated on one step: when a
\* wake-up timer fires, a next activation of trackingLoop is scheduled.
C1_WakeUpStartsCycle ==
  [][Len(wakeTimers') < Len(wakeTimers) => pendingLoop' = pendingLoop + 1]_vars

\* C2: at most one activation of trackingLoop is between its start and its
\* end at any time, also when startSmartTracking is called during a cycle.
C2_OneCycleAtATime == Cardinality(Running) <= 1

\* a cycle is running and startSmartTracking has been called during it
C2_CalledWhileRunning == Running # {} /\ reentrantCalls = 1 /\ pendingLoop = 0

\* C3: used + remaining is the monthly budget, and used is the sum of the
\* credits recorded since the last monthly reset.
C3_Conservation ==
  /\ creditUsage.used + creditUsage.remaining = maxCreditsPerMonth
  /\ creditUsage.used = recorded

\* credits have been recorded after a monthly reset
C3_RecordedAfterReset == creditUsage.resetDate = 2 * MonthTicks /\ recorded > 0

\* C4: the budget pre-check answers true only if the monthly budget covers
\* the cost of a call and the daily limit does: remaining >= cost and
\* dailyUsed + cost <= dailyLimit.
C4_CheckHonoursDailyLimit ==
  (lastCheck.made /\ lastCheck.answer) => (lastCheck.monthlyLeft /\ lastCheck.dailyLeft)

\* C5: the remaining monthly budget is never negative.
C5_RemainingNotNegative == creditUsage.remaining >= 0

\* C6: every day boundary resets the daily counter once: when the rollover
\* check has run since the last day boundary, dailyUsed counts no credit
\* recorded before that boundary.
C6_DailyResetAtBoundary == today.checked => creditUsage.dailyUsed <= today.recorded

\* a step in which checkCreditUsage ran its rollover, past the reset date
RolloverStep == lastCreditCheck' # lastCreditCheck /\ now > creditUsage.resetDate

RECURSIVE WeightOf(_)
\* the sum of the weights of a set of calls
WeightOf(S) ==
  IF S = {} THEN 0
  ELSE LET c == CHOOSE x \in S : TRUE IN calls[c].weight + WeightOf(S \ {c})

\* the calls admitted in the second that ends at t, and not failed
AdmittedIn(t) ==
  {c \in Calls : /\ calls[c].pc \in {"running", "ok"}
                 /\ calls[c].at > t - WindowTicks
                 /\ calls[c].at <= t}

\* C8: in every trailing window of one second, the weights of the calls
\* admitted and not failed sum to maxRequestsPerSecond at most.
C8_RateCap == \A t \in 0..MaxRlNow : WeightOf(AdmittedIn(t)) <= maxRequestsPerSecond

\* C9: when the wrapped function of a call throws, the sample this call
\* recorded leaves the window and every other call's sample stays.
C9_RemovesOwnSample ==
  [][\A c \in Calls :
       (calls[c].pc = "running" /\ calls'[c].pc = "failed")
         => requests' = SelectSeq(requests, LAMBDA r : r.id # c)]_vars

\* C10: of two calls waiting for a slot, the later one is not admitted
\* while the earlier one still waits.
C10_FifoAdmission ==
  [][\A a, b \in Calls :
       (a < b /\ calls[a].pc = "polling" /\ calls[b].pc = "polling")
         => ~(calls'[b].pc = "running" /\ calls'[a].pc = "polling")]_vars

\* a step in which call c of the breaker is made / in which its function settles
Made(c) == breakerCalls[c].pc = "new" /\ breakerCalls'[c].pc # "new"
Failed(c) == breakerCalls[c].pc = "running" /\ breakerCalls'[c].pc = "failed"
Succeeded(c) == breakerCalls[c].pc = "running" /\ breakerCalls'[c].pc = "ok"

\* the last n wrapped calls that settled all failed / all succeeded
LastFailed(o, n) == Len(o) >= n /\ \A i \in (Len(o) - n + 1)..Len(o) : ~o[i]
LastSucceeded(o, n) == Len(o) >= n /\ \A i \in (Len(o) - n + 1)..Len(o) : o[i]

\* C11: the failureThreshold-th consecutive failure opens the breaker, and a
\* call made while OPEN with now - lastFailureTime <= recoveryTimeout is
\* refused: the wrapped function is not invoked and the breaker is unchanged.
C11_OpenRejects ==
  [][\A c \in BreakerCalls :
       /\ (Failed(c) /\ LastFailed(outcomes', failureThreshold)) => state' = "OPEN"
       /\ (Made(c) /\ state = "OPEN" /\ breakerNow - lastFailureTime <= recoveryTimeout)
            => /\ breakerCalls'[c].pc = "rejected"
               /\ UNCHANGED <<state, failures, lastFailureTime, successCount>>]_vars

\* a call was refused by the open breaker
C11_Rejected ==
  \E c \in BreakerCalls : breakerCalls[c].pc = "rejected" /\ LastFailed(outcomes, failureThreshold)

\* C12: a call made while OPEN with now - lastFailureTime > recoveryTimeout
\* moves the breaker to HALF_OPEN with successCount 0, and its wrapped
\* function is invoked in that state.
C12_LazyHalfOpen ==
  [][\A c \in BreakerCalls :
       (Made(c) /\ state = "OPEN" /\ breakerNow - lastFailureTime > recoveryTimeout)
         => /\ state' = "HALF_OPEN"
            /\ successCount' = 0
            /\ breakerCalls'[c].pc = "running"
            /\ breakerCalls'[c].invokedIn = "HALF_OPEN"]_vars

\* a call found the breaker OPEN and was let through as a trial
C12_TrialMade ==
  \E c \in BreakerCalls : breakerCalls[c].before = "OPEN" /\ breakerCalls[c].pc = "running"

\* the calls whose wrapped function is running
InFlight == {c \in BreakerCalls : breakerCalls[c].pc = "running"}

\* C13: while the breaker is HALF_OPEN and a trial call is in flight, no
\* other call's wrapped function is invoked.
C13_OneTrial ==
  [][\A c \in BreakerCalls :
       (Made(c) /\ state = "HALF_OPEN"
          /\ \E d \in InFlight : breakerCalls[d].invokedIn = "HALF_OPEN")
         => breakerCalls'[c].pc # "running"]_vars

\* C14: a failure while HALF_OPEN moves the breaker to OPEN and sets
\* lastFailureTime to the time of the failure.
C14_TrialFailureOpens ==
  [][\A c \in BreakerCalls :
       (Failed(c) /\ state = "HALF_OPEN")
         => (state' = "OPEN" /\ lastFailureTime' = breakerNow)]_vars

\* C15: the breaker goes from HALF_OPEN to CLOSED when successThreshold
\* calls in a row succeeded, and only then.
C15_ClosesAfterSuccesses ==
  [][/\ (state = "HALF_OPEN" /\ state' = "CLOSED")
          => LastSucceeded(outcomes', successThreshold)
     /\ \A c \in BreakerCalls :
          (Succeeded(c) /\ state = "HALF_OPEN" /\ successCount + 1 >= successThreshold)
            => state' = "CLOSED"]_vars

\* C16: a success in CLOSED sets the failure counter to zero, and the
\* breaker goes from CLOSED to OPEN only when the last failureThreshold
\* calls that settled all failed.
C16_OpensOnConsecutiveFailures ==
  [][/\ \A c \in BreakerCalls : (Succeeded(c) /\ state = "CLOSED") => failures' = 0
     /\ (state = "CLOSED" /\ state' = "OPEN") => LastFailed(outcomes', failureThreshold)]_vars

\* the breaker opened after a failure, a success and the failures that count
C16_OpenedAfterSuccess ==
  /\ state = "OPEN"
  /\ Len(outcomes) = failureThreshold + 2
  /\ ~outcomes[1] /\ outcomes[2]
  /\ \A c \in BreakerCalls : breakerCalls[c].before # "OPEN"

\* C17: no read of the wallet cache returns the value of an entry with
\* now - timestamp >= cacheTTL.
C17_StaleIsAbsent == cacheOp.returned \subseteq cacheOp.fresh

\* the entry that cacheWallet(address, whale) writes
NewEntry(address) ==
  [wallet |-> Whale(address), timestamp |-> now,
   cacheTTL |-> IF Whale(address) = "hi" THEN HighTTL ELSE DefaultTTL]

\* C18: an insertion that leaves the cache above its cap evicts one entry,
\* one of smallest timestamp among all entries; any other insertion evicts
\* nothing.
C18_EvictsOldest ==
  [][(cacheOp'.op = "cacheWallet" /\ walletCache' # walletCache) =>
       LET ins == MapSet(walletCache, cacheOp'.address, NewEntry(cacheOp'.address))
       IN IF Len(ins) > MaxCacheSize
          THEN \E i \in 1..Len(ins) :
                 /\ \A j \in 1..Len(ins) : ins[i].v.timestamp <= ins[j].v.timestamp
                 /\ walletCache' = SubSeq(ins, 1, i - 1) \o SubSeq(ins, i + 1, Len(ins))
          ELSE walletCache' = ins]_vars

\* an insertion has evicted an entry that was not the first one inserted
C18_EvictedByAge ==
  /\ cacheOp.op = "cacheWallet"
  /\ cacheOp.evicted = {"w2"}
  /\ cacheOp.position = 2

\* C19: the TTL of an entry is fixed by the quality of its value when it is
\* inserted, the high-quality TTL being the longer one; of a high-quality
\* and a default entry of the same age t, DefaultTTL <= t < HighTTL, a read
\* finds the first and not the second.
C19_TtlByQuality ==
  /\ DefaultTTL < HighTTL
  /\ \A i \in 1..Len(walletCache) :
       /\ walletCache[i].v.wallet = "hi" => walletCache[i].v.cacheTTL = HighTTL
       /\ walletCache[i].v.wallet = "lo" => walletCache[i].v.cacheTTL = DefaultTTL
  /\ \A i, j \in 1..Len(walletCache) :
       LET h == walletCache[i]
           d == walletCache[j]
       IN (/\ h.v.wallet = "hi" /\ d.v.wallet = "lo"
           /\ h.v.timestamp = d.v.timestamp
           /\ DefaultTTL <= now - h.v.timestamp
           /\ now - h.v.timestamp < HighTTL)
          => splitCachedUncached(walletCache, <<h.k, d.k>>) =
               [cached |-> <<h.k>>, uncached |-> <<d.k>>]

\* a read found the high-quality entry and not the default entry of its age
C19_HighFreshDefaultStale ==
  /\ cacheOp.op = "splitCachedUncached"
  /\ cacheOp.returned = {"w1"}
  /\ MapHas(walletCache, "w1") /\ MapHas(walletCache, "w2")
  /\ MapGet(walletCache, "w1").timestamp = MapGet(walletCache, "w2").timestamp
  /\ now - MapGet(walletCache, "w2").timestamp >= DefaultTTL

\* the places of job j's chunks in the order of the processor's calls
HandedAt(j) == {i \in 1..Len(handed) : handed[i] = j}

\* C20: of two jobs submitted with priorities 1 and then 5, the chunks of
\* the priority-5 job are handed to the processor before those of the
\* priority-1 job.
C20_HigherPriorityFirst ==
  \A a, b \in Jobs :
    (a < b /\ jobs[a].priority = 1 /\ jobs[b].priority = 5)
      => \A i \in HandedAt(a), k \in HandedAt(b) : k < i

\* C21: the value a job's promise resolves with is the concatenation of its
\* chunks' results in the order of the chunks, whatever the order in which
\* the processor calls settled.
C21_ResultInChunkOrder ==
  \A j \in Jobs :
    jobs[j].pc = "resolved"
      => /\ Len(jobs[j].results) = Len(chunkArray(jobs[j].items, processorBatchSize))
         /\ jobs[j].value = flat(jobs[j].results)

\* a job was resolved whose second chunk settled before its first, both with
\* results
C21_SettledOutOfOrder ==
  \E j \in Jobs :
    /\ jobs[j].pc = "resolved"
    /\ jobs[j].order = <<2, 1>>
    /\ jobs[j].results = <<(<<1>>), (<<2>>)>>

\* a job passes from "new" to the queue or to the processor
Submitted(j) == jobs[j].pc = "new" /\ jobs'[j].pc # "new"

\* C22: at most one drain loop is active; a submission that finds no loop
\* starts one, a submission that finds one only enqueues its job; no job
\* waits in the queue while no loop is active.
C22_OneDrainLoop ==
  /\ [](loops <= 1 /\ (processing <=> loops = 1) /\ (queue # <<>> => loops = 1))
  /\ [][\A j \in Jobs :
          Submitted(j) =>
            IF loops = 0
            THEN loops' = 1 /\ processing' /\ current' = j /\ jobs'[j].pc = "running"
            ELSE /\ loops' = loops /\ current' = current /\ handed' = handed
                 /\ jobs'[j].pc = "queued"
                 /\ \E i \in 1..Len(queue') : queue'[i] = j]_vars

\* a job is waiting in the queue while the loop works on another job
C22_EnqueuedWhileRunning ==
  /\ loops = 1
  /\ queue # <<>>
  /\ current \in Jobs
  /\ jobs[current].pc = "running"

Settled(j) == jobs[j].pc \in {"resolved", "rejected"}

\* C23: the rejection of one job settles no other job and does not end the
\* loop while jobs are queued; a settled job stays as it settled; and, with
\* processor calls that terminate, every submitted job is eventually
\* resolved or rejected.
C23_RejectionIsLocal ==
  /\ [][\A j \in Jobs :
          (jobs[j].pc = "running" /\ jobs'[j].pc = "rejected")
            => /\ \A i \in Jobs \ {j} : Settled(i)' <=> Settled(i)
               /\ queue # <<>> => (processing' /\ current' = Head(queue)
                                     /\ jobs'[Head(queue)].pc = "running")]_vars
  /\ [][\A j \in Jobs : Settled(j) => jobs'[j].pc = jobs[j].pc]_vars
  /\ \A j \in Jobs : (jobs[j].pc \in {"queued", "running"}) ~> Settled(j)

\* a job was rejected and a job submitted before that rejection was resolved
\* after it
C23_ResolvedAfterRejection ==
  \E a, b \in Jobs :
    /\ a # b
    /\ jobs[a].pc = "rejected"
    /\ jobs[b].pc = "resolved"
    /\ \E i \in HandedAt(a), k \in HandedAt(b) : i < k

\* C24: when trackingLoop finds the credits below the cycle's minimum, the
\* activation starts no discovery and no analyzer call, leaves the ledger,
\* the cache and the tracked set as they are, and sets one wake-up timer with
\* the cooldown delay.
C24_SkipChangesNothing ==
  [][(pendingLoop' < pendingLoop /\ heliusService
        /\ creditUsage.remaining < MinCycleCredits)
       => /\ tasks' = tasks
          /\ creditUsage' = creditUsage
          /\ recorded' = recorded
          /\ lastCreditCheck' = lastCreditCheck
          /\ walletCache' = walletCache
          /\ trackedWallets' = trackedWallets
          /\ lastFullUpdate' = lastFullUpdate
          /\ wakeTimers' = Append(wakeTimers, CooldownDelay)]_vars

\* the first cycle was skipped after manual refreshes had spent the credits
C24_CycleSkipped ==
  /\ \E i \in 1..Len(wakeTimers) : wakeTimers[i] = CooldownDelay
  /\ \A c \in Cycles : tasks[c] = IdleTask
  /\ creditUsage.remaining < MinCycleCredits
  /\ recorded > 0

\* the address whose analyzer call task t awaits
CurrentAddress(t) == tasks[t].batches[1][tasks[t].idx]

\* the analyzer call that task t awaits returns in this step
AnalyzerReturned(t) ==
  /\ tasks[t].pc = "analyzing"
  /\ tasks'[t].pc \in {"analyzing", "sleeping"}
  /\ tasks'[t].pc = "analyzing" => tasks'[t].idx # tasks[t].idx

\* the analyzer call returned a whale
AnalyzerSucceeded(t) ==
  \/ MapHas(tasks'[t].batchResults, CurrentAddress(t))
  \/ MapHas(tasks'[t].results, CurrentAddress(t))

\* C25: an analyzer call that returns a whale is charged its cost once, and
\* an analyzer call that returns none is charged nothing.
C25_ChargedOnlyForResults ==
  [][\A t \in Tasks :
       AnalyzerReturned(t) =>
         creditUsage'.used - creditUsage.used =
           IF AnalyzerSucceeded(t) THEN AnalyzeCredits ELSE 0]_vars

\* C26: a lower remaining daily budget never gives a shorter delay than a
\* higher one: whatever the ledger holds, the delay computed from any lower
\* remaining daily budget is at least the delay computed from the ledger.
C26_LowerBudgetLongerDelay ==
  \A d \in 0..maxCreditsPerDay :
    LET other == [creditUsage EXCEPT !.dailyUsed = d]
    IN getDailyRemainingCredits(other) < getDailyRemainingCredits(creditUsage)
         => calculateOptimalInterval(other) >= calculateOptimalInterval(creditUsage)

\* C27: an exception raised in a cycle does not leave trackingLoop: the
\* step in which it is raised sets exactly one wake-up timer, with the
\* retry delay.
C27_ExceptionCaught ==
  [][\A c \in Cycles :
       (~tasks[c].threw /\ tasks'[c].threw)
         => wakeTimers' = Append(wakeTimers, RetryDelay)]_vars

\* C28: no manual refresh is between its start and its end while a cycle is
\* between its start and its end.
C28_NoOverlap ==
  \A c \in Cycles, r \in Refreshes :
    ~(tasks[c].pc # "idle" /\ tasks[r].pc # "idle")

\* a cycle calls the analyzer in this step
AnalyzerCalled(c) ==
  /\ tasks'[c].pc = "analyzing"
  /\ <<tasks'[c].pc, tasks'[c].idx, tasks'[c].batches>>
       # <<tasks[c].pc, tasks[c].idx, tasks[c].batches>>

\* C29: every analyzer call of a cycle passes through the circuit breaker
\* and the rate limiter, and while the breaker is OPEN with its recovery
\* timeout not elapsed a cycle calls no analyzer and charges no credit.
C29_AnalyzerCallsGuarded ==
  [][\A c \in Cycles :
       /\ AnalyzerCalled(c)
            => /\ \E b \in BreakerCalls :
                    breakerCalls[b].pc = "new" /\ breakerCalls'[b].pc = "running"
               /\ \E r \in Calls : calls[r].pc = "new" /\ calls'[r].pc # "new"
       /\ (state = "OPEN" /\ breakerNow - lastFailureTime < recoveryTimeout
             /\ tasks[c].pc # "idle")
            => ~AnalyzerCalled(c) /\ creditUsage'.used = creditUsage.used]_vars

\* C30: when the token-holders request of a cycle returns an empty list and
\* wallets were tracked before, the cycle's candidates are the tracked
\* addresses.
C30_EmptyDiscoveryFallsBack ==
  [][\A c \in Cycles :
       (tasks[c].pc = "discovering" /\ tasks'[c].holders = 0 /\ trackedWallets # <<>>)
         => SeqToSet(tasks'[c].cand) = SeqToSet(MapKeys(trackedWallets))]_vars

\* the jobs waiting in the queue
Waiting == {j \in Jobs : jobs[j].pc = "queued"}

\* C34: the job the drain loop takes is, among the jobs waiting at that
\* moment, one of highest priority, and among those the one submitted first
\* (jobs are submitted in the order of their numbers).
C34_TakesHighestEarliest ==
  [][\A j \in Jobs :
       (jobs[j].pc = "queued" /\ jobs'[j].pc = "running")
         => \A i \in Waiting \ {j} :
              \/ jobs[i].priority < jobs[j].priority
              \/ jobs[i].priority = jobs[j].priority /\ j < i]_vars

\* a job of priority 5 was taken while a job of priority 1 submitted before
\* it still waits
C34_TakenOutOfArrivalOrder ==
  \E a, b \in Jobs :
    /\ a < b
    /\ jobs[a].pc = "queued" /\ jobs[a].priority = 1
    /\ jobs[b].pc = "running" /\ jobs[b].priority = 5

\* C35: the wallet cache holds at most its maximum number of entries.
C35_CacheBounded == Len(walletCache) <= MaxCacheSize

\* job j has a processor call in flight
HasPending(j) == \E k \in 1..Len(jobs[j].chunks) : jobs[j].chunks[k] = "pending"

\* C36: the processor calls in flight belong to one job.
C36_OneJobInFlight ==
  \A a, b \in Jobs : (HasPending(a) /\ HasPending(b)) => a = b

\* C39: while the breaker is OPEN its failure counter is at least the
\* failure threshold.
C39_OpenImpliesThreshold == state = "OPEN" => failures >= failureThreshold

\* C38: every call of execute that waits for a slot is admitted in the end
\* and calls its function.
C38_EveryCallAdmitted ==
  \A c \in Calls :
    (calls[c].pc = "polling") ~> (calls[c].pc \in {"running", "ok", "failed"})

\* C31: once the tracking is started and the monthly reset time of the
\* ledger has passed, a cycle wakes that is not skipped.
C31_RunsAfterReset ==
  (heliusService /\ isTracking /\ now > MonthTicks)
    ~> (\E c \in Cycles : tasks[c].woke > MonthTicks)

\* the addresses a call of trackWalletsOptimized still has to fetch
BatchAddrs(tk) ==
  UNION {{tk.batches[i][j] : j \in 1..Len(tk.batches[i])} : i \in 1..Len(tk.batches)}

\* the addresses given to the call that task t makes, up to the wallet limit
Limited(tk, t) ==
  LET addresses == IF t \in Cycles THEN tk.cand ELSE <<tk.addr>>
  IN {addresses[i] : i \in 1..Min(Len(addresses), maxWalletsToTrack)}

\* address a has a cache entry within its time to live
FreshInCache(a) == MapHas(walletCache, a) /\ Fresh(MapGet(walletCache, a))

\* C32: when a call of trackWalletsOptimized splits its addresses, an
\* address with a fresh cache entry is in no batch, is answered with the
\* cached wallet and the call charges nothing in that step (a discovery before
\* it charges its one request, a monthly reset empties the ledger); the
\* batches hold
\* exactly the other addresses; while the call goes on no address joins the
\* batches and the answers taken from the cache stay.
C32_FreshNotFetched ==
  [][\A t \in Tasks :
       /\ (tasks[t].pc \in {"idle", "discovering"} /\ tasks'[t].pc = "analyzing")
            => /\ \A a \in Limited(tasks'[t], t) :
                    IF FreshInCache(a)
                    THEN /\ a \notin BatchAddrs(tasks'[t])
                         /\ MapHas(tasks'[t].results, a)
                         /\ MapGet(tasks'[t].results, a) = MapGet(walletCache, a).wallet
                    ELSE /\ a \in BatchAddrs(tasks'[t])
                         /\ ~MapHas(tasks'[t].results, a)
               /\ BatchAddrs(tasks'[t]) \subseteq Limited(tasks'[t], t)
               /\ recorded' \in IF tasks[t].pc = "idle" THEN {recorded, 0}
                                ELSE {recorded + DiscoverCredits, DiscoverCredits, 0}
       /\ (tasks[t].pc \in {"analyzing", "sleeping"}
             /\ tasks'[t].pc \in {"analyzing", "sleeping"})
            => /\ BatchAddrs(tasks'[t]) \subseteq BatchAddrs(tasks[t])
               /\ \A a \in CacheAddrs :
                    (MapHas(tasks[t].results, a) /\ a \notin BatchAddrs(tasks[t]))
                      => /\ MapHas(tasks'[t].results, a)
                         /\ MapGet(tasks'[t].results, a) = MapGet(tasks[t].results, a)
    ]_vars

\* a cycle fetches one address while another one of its addresses, fresh in
\* the cache, is already among its results
C32_SplitWithFreshEntry ==
  \E t \in Cycles, a \in Addrs :
    /\ tasks[t].pc = "analyzing"
    /\ a \in Limited(tasks[t], t)
    /\ FreshInCache(a)
    /\ MapHas(tasks[t].results, a)
    /\ a \notin BatchAddrs(tasks[t])
    /\ BatchAddrs(tasks[t]) # {}

\* the addresses for which the call of task tk holds a result
Answered(tk) ==
  {tk.results[i].k : i \in 1..Len(tk.results)}
    \cup {tk.batchResults[i].k : i \in 1..Len(tk.batchResults)}

C37_NoDuplicateAddress ==
  \A i, j \in 1..Len(whaleWallets) :
    whaleWallets[i].address = whaleWallets[j].address => i = j

====
